---- MODULE Spec2Model ----
(***************************************************************************)
(* Model of the two capture programs of CloudLaunch_Go:                    *)
(*   native/dxgi_screenshot/DxgiScreenshot.cpp  (monitor capture, "dxgi")  *)
(*   native/wgc_screenshot/WgcScreenshot.cpp    (window capture,  "wgc")   *)
(* Strings are sequences of one-character strings, C ints are 32-bit       *)
(* two's-complement values, files are records with a kind and dimensions.  *)
(***************************************************************************)
EXTENDS Integers, Sequences, FiniteSets, TLC

VARIABLES
  pc,          \* position of the main thread
  argv,        \* dxgi: the command line (argv[0] included)
  options,     \* dxgi: struct Options after ParseArgs
  outputs,     \* dxgi: the monitors the adapters enumerate (DesktopCoordinates)
  outputIndex, \* dxgi: main's outputIndex
  cropRect,    \* dxgi: main's cropRect / wgc: the crop handed to SavePngFromTexture
  desc,        \* width and height of the captured texture
  frameState,  \* dxgi: the duplication frame: "none", "held", "released"
  frameOps,    \* dxgi: the calls made on the acquired frame so far, in order
  exitCode,    \* process exit code / HRESULT class of the result ("none" while running)
  stdout,      \* dxgi: what was printed on standard output
  files,       \* file system: path -> content record
  handle,      \* the path an IWICStream holds open ("" when none)
  image,       \* width and height given to IWICBitmapFrameEncode::SetSize
  captureTried, \* dxgi: AcquireNextFrame calls / wgc: StartCapture calls

  wargs,       \* wgc: hwnd, outPath and clientOnly as wmain parsed them
  win,         \* wgc: what the window queries answer
  hr,          \* wgc: the HRESULT CaptureWindowToPngFileEx returns
  cb,          \* wgc: position of the FrameArrived callback on the platform thread
  cap,         \* wgc: handler, session, frame pool, event and the captured slot
  guard,       \* wgc: the TempFileGuard of SavePngFromTexture
  wicShareDelete, \* whether the platform's IWICStream opens its file with FILE_SHARE_DELETE

  mapped,      \* pixel copy: D3D11_MAPPED_SUBRESOURCE: RowPitch and the bytes at pData
  pixels,      \* pixel copy: the vector the cropped rows are copied into
  row,         \* pixel copy: the loop variable y
  encoded      \* pixel copy: the image IWICBitmapFrameEncode::WritePixels received

dxgiVars == <<argv, options, outputs, outputIndex, frameState, frameOps, stdout>>
wgcVars  == <<wargs, win, hr, cb, cap, guard>>
copyVars == <<mapped, pixels, row, encoded>>
vars == <<pc, cropRect, desc, exitCode, files, handle, image, captureTried,
          wicShareDelete, dxgiVars, wgcVars, copyVars>>

-----------------------------------------------------------------------------
(* 32-bit int arithmetic *)

INT_MAX == 2147483647
INT_MIN == -INT_MAX - 1

\* a + b on int, wrapping on overflow as the x86 add the build emits
Add32(a, b) ==
  IF b >= 0
    THEN IF a > INT_MAX - b THEN (a + INT_MIN) + (b + INT_MIN) ELSE a + b
    ELSE IF a < INT_MIN - b THEN (a - INT_MIN) + (b - INT_MIN) ELSE a + b

\* a - b on int, wrapping on overflow
Sub32(a, b) ==
  IF b >= 0
    THEN IF a < INT_MIN + b THEN (((a - INT_MIN) - b) + INT_MAX) + 1 ELSE a - b
    ELSE IF a > INT_MAX + b THEN (a + INT_MIN) - (b - INT_MIN) ELSE a - b

\* C's a / 2: truncation toward zero
Half(a) == IF a >= 0 THEN a \div 2 ELSE (a + 1) \div 2

Max(a, b) == IF a >= b THEN a ELSE b
Min(a, b) == IF a <= b THEN a ELSE b

-----------------------------------------------------------------------------
(* strings: sequences of one-character strings *)

S_out     == <<"-", "-", "o", "u", "t">>
S_crop    == <<"-", "-", "c", "r", "o", "p">>
S_monitor == <<"-", "-", "m", "o", "n", "i", "t", "o", "r">>
S_format  == <<"-", "-", "f", "o", "r", "m", "a", "t">>
S_png     == <<"p", "n", "g">>

UpperChars == <<"A","B","C","D","E","F","G","H","I","J","K","L","M",
                "N","O","P","Q","R","S","T","U","V","W","X","Y","Z">>
LowerChars == <<"a","b","c","d","e","f","g","h","i","j","k","l","m",
                "n","o","p","q","r","s","t","u","v","w","x","y","z">>

\* ::towlower on one character
towlower(c) ==
  IF \E i \in 1..Len(UpperChars) : UpperChars[i] = c
    THEN LowerChars[CHOOSE i \in 1..Len(UpperChars) : UpperChars[i] = c]
    ELSE c

\* std::transform(fmt.begin(), fmt.end(), fmt.begin(), ::towlower)
ToLower(s) == [i \in 1..Len(s) |-> towlower(s[i])]

\* MultiByteToWideChar(CP_UTF8, 0, ...) on one byte: ASCII maps to itself, a
\* byte that is no valid UTF-8 ("xFF") becomes U+FFFD
WideChar(c) == IF c = "xFF" THEN "uFFFD" ELSE c

ToWide(value) ==
  IF value = <<>> THEN <<>> ELSE [i \in 1..Len(value) |-> WideChar(value[i])]

DigitChars == <<"0", "1", "2", "3", "4", "5", "6", "7", "8", "9">>
IsDigit(c) == \E i \in 1..10 : DigitChars[i] = c
DigitVal(c) == (CHOOSE i \in 1..10 : DigitChars[i] = c) - 1

RECURSIVE SkipSpace(_, _)
SkipSpace(s, i) == IF i <= Len(s) /\ s[i] = " " THEN SkipSpace(s, i + 1) ELSE i

\* the digits of strtol from position i: how many were read, their value, and
\* whether the value left the range of long (32 bits on Windows)
RECURSIVE StrtolDigits(_, _, _, _, _)
StrtolDigits(s, i, n, mag, sat) ==
  IF i <= Len(s) /\ IsDigit(s[i])
    THEN LET d == DigitVal(s[i]) IN
         IF sat \/ mag > (INT_MAX - d) \div 10
           THEN StrtolDigits(s, i + 1, n + 1, INT_MAX, TRUE)
           ELSE StrtolDigits(s, i + 1, n + 1, mag * 10 + d, FALSE)
    ELSE [n |-> n, mag |-> mag, sat |-> sat]

\* bool ParseInt(const char* value, int* out): [ok, val]
ParseInt(value) ==
  LET i0  == SkipSpace(value, 1)
      neg == i0 <= Len(value) /\ value[i0] = "-"
      i1  == IF i0 <= Len(value) /\ value[i0] \in {"+", "-"} THEN i0 + 1 ELSE i0
      r   == StrtolDigits(value, i1, 0, 0, FALSE)
  IN IF r.n = 0
       THEN [ok |-> FALSE, val |-> 0]
       ELSE [ok |-> TRUE,
             val |-> IF neg THEN (IF r.sat THEN INT_MIN ELSE -r.mag)
                            ELSE (IF r.sat THEN INT_MAX ELSE r.mag)]

\* struct Options with its default member initializers
DefaultOptions ==
  [outPath |-> <<>>, cropX |-> 0, cropY |-> 0, cropW |-> 0, cropH |-> 0,
   monitorIndex |-> -1, format |-> S_png]

\* the for loop of ParseArgs from index i (C index; av[i + 1] is argv[i]):
\* [ok, o, err]; o is *options as the loop leaves it, err names the failure
\* ("unknown": the "Unknown argument" branch, "number": a failed ParseInt)
RECURSIVE ParseLoop(_, _, _)
ParseLoop(av, i, o) ==
  LET argc == Len(av) IN
  IF i >= argc THEN [ok |-> TRUE, o |-> o, err |-> ""]
  ELSE LET arg == av[i + 1] IN
    IF arg = S_out /\ i + 1 < argc
      THEN ParseLoop(av, i + 2, [o EXCEPT !.outPath = ToWide(av[i + 2])])
    ELSE IF arg = S_crop /\ i + 4 < argc
      THEN LET px == ParseInt(av[i + 2])
               py == ParseInt(av[i + 3])
               pw == ParseInt(av[i + 4])
               ph == ParseInt(av[i + 5])
               o1 == [o EXCEPT !.cropX = px.val]
               o2 == [o1 EXCEPT !.cropY = py.val]
               o3 == [o2 EXCEPT !.cropW = pw.val]
               o4 == [o3 EXCEPT !.cropH = ph.val]
           IN IF ~px.ok THEN [ok |-> FALSE, o |-> o, err |-> "number"]
              ELSE IF ~py.ok THEN [ok |-> FALSE, o |-> o1, err |-> "number"]
              ELSE IF ~pw.ok THEN [ok |-> FALSE, o |-> o2, err |-> "number"]
              ELSE IF ~ph.ok THEN [ok |-> FALSE, o |-> o3, err |-> "number"]
              ELSE ParseLoop(av, i + 5, o4)
    ELSE IF arg = S_monitor /\ i + 1 < argc
      THEN LET pm == ParseInt(av[i + 2])
           IN IF ~pm.ok THEN [ok |-> FALSE, o |-> o, err |-> "number"]
              ELSE ParseLoop(av, i + 2, [o EXCEPT !.monitorIndex = pm.val])
    ELSE IF arg = S_format /\ i + 1 < argc
      THEN ParseLoop(av, i + 2, [o EXCEPT !.format = ToWide(av[i + 2])])
    ELSE [ok |-> FALSE, o |-> o, err |-> "unknown"]

\* ParseArgs comparing the format with "png" without lowering its case
ParseArgs_NoLower(av) ==
  LET r == ParseLoop(av, 1, DefaultOptions) IN
  IF ~r.ok THEN r
  ELSE IF r.o.outPath = <<>> \/ r.o.cropW <= 0 \/ r.o.cropH <= 0
    THEN [r EXCEPT !.ok = FALSE]
  ELSE IF r.o.format # <<>> /\ r.o.format # S_png
    THEN [r EXCEPT !.ok = FALSE]
  ELSE r

\* bool ParseArgs(int argc, char** argv, Options* options): [ok, o, err]
ParseArgs(av) ==
  LET r == ParseLoop(av, 1, DefaultOptions) IN
  IF ~r.ok THEN r
  ELSE IF r.o.outPath = <<>> \/ r.o.cropW <= 0 \/ r.o.cropH <= 0
    THEN [r EXCEPT !.ok = FALSE]
  ELSE IF r.o.format # <<>> /\ ToLower(r.o.format) # S_png
    THEN [r EXCEPT !.ok = FALSE]
  ELSE r

-----------------------------------------------------------------------------
(* geometry of the monitor program *)

Rect(l, t, r, b) == [left |-> l, top |-> t, right |-> r, bottom |-> b]
ZeroRect == Rect(0, 0, 0, 0)

\* the loop of FindOutputIndex from (0-based) index i
RECURSIVE FindOutputLoop(_, _, _, _)
FindOutputLoop(outs, i, centerX, centerY) ==
  IF i >= Len(outs) THEN 0
  ELSE LET rect == outs[i + 1] IN
       IF centerX >= rect.left /\ centerX < rect.right /\
          centerY >= rect.top /\ centerY < rect.bottom
         THEN i
         ELSE FindOutputLoop(outs, i + 1, centerX, centerY)

\* FindOutputIndex testing the crop's top-left corner instead of its centre
FindOutputIndex_Corner(outs, x, y, w, h) ==
  IF outs = <<>> THEN -1 ELSE FindOutputLoop(outs, 0, x, y)

\* int FindOutputIndex(outputs, x, y, w, h)
FindOutputIndex(outs, x, y, w, h) ==
  IF outs = <<>> THEN -1
  ELSE FindOutputLoop(outs, 0, Add32(x, Half(w)), Add32(y, Half(h)))

\* main: the choice of outputIndex from --monitor or the crop's centre
SelectOutputIndex(outs, o) ==
  IF o.monitorIndex < 0 \/ o.monitorIndex >= Len(outs)
    THEN FindOutputIndex(outs, o.cropX, o.cropY, o.cropW, o.cropH)
    ELSE o.monitorIndex

\* bool CropRectForOutput(desktop, x, y, w, h, outCrop): [ok, crop]
CropRectForOutput(desktop, x, y, w, h) ==
  LET l0 == Sub32(x, desktop.left)
      t0 == Sub32(y, desktop.top)
      r0 == Add32(l0, w)
      b0 == Add32(t0, h)
      boundsRight  == Sub32(desktop.right, desktop.left)
      boundsBottom == Sub32(desktop.bottom, desktop.top)
      crop == Rect(Max(l0, 0), Max(t0, 0), Min(r0, boundsRight), Min(b0, boundsBottom))
  IN IF crop.right <= crop.left \/ crop.bottom <= crop.top
       THEN [ok |-> FALSE, crop |-> ZeroRect]
       ELSE [ok |-> TRUE, crop |-> crop]

-----------------------------------------------------------------------------
(* files *)

P_out == <<"o">>
S_tmp == <<".", "t", "m", "p">>
Paths == {P_out, P_out \o S_tmp}
NoPath == <<>>

Absent  == [kind |-> "absent", w |-> 0, h |-> 0]
Old     == [kind |-> "old", w |-> 0, h |-> 0]
Partial == [kind |-> "partial", w |-> 0, h |-> 0]
Png(w, h) == [kind |-> "png", w |-> w, h |-> h]

\* IWICStream::InitializeFromFilename(path, GENERIC_WRITE): the file is created
\* or truncated
OpenForWrite(fs, path) == [fs EXCEPT ![path] = Partial]

\* IWICBitmapEncoder::Commit: the stream now holds the complete PNG
FinishPng(fs, path, img) == [fs EXCEPT ![path] = Png(img.w, img.h)]

-----------------------------------------------------------------------------
(* the inputs of the monitor program *)

MaxCoord == 3
MaxMonitors == 2

RECURSIVE NatToStr(_)
NatToStr(n) ==
  IF n < 10 THEN <<DigitChars[n + 1]>>
  ELSE NatToStr(n \div 10) \o <<DigitChars[(n % 10) + 1]>>
IntToStr(n) == IF n < 0 THEN <<"-">> \o NatToStr(-n) ELSE NatToStr(n)

T_prog    == <<"x">>
T_huge    == <<"9", "9", "9", "9", "9", "9", "9", "9", "9", "9", "9">>
T_neghuge == <<"-">> \o T_huge
T_abc     == <<"a", "b", "c">>
T_bogus   == <<"-", "-", "b", "o", "g", "u", "s">>

XTokens == {IntToStr(n) : n \in -MaxCoord..MaxCoord} \cup {T_huge, T_neghuge}
WTokens == {IntToStr(1), IntToStr(2), IntToStr(4), T_huge}
YTokens == {IntToStr(-1), IntToStr(0), T_huge}
HTokens == {IntToStr(1), IntToStr(2)}
MonitorTokens == {IntToStr(n) : n \in -1..MaxMonitors}

OutArgs == <<S_out, P_out>>
CropArgs(x, y, w, h) == <<S_crop, x, y, w, h>>
UnitCrop == CropArgs(IntToStr(0), IntToStr(0), IntToStr(1), IntToStr(1))

\* command lines that vary the crop rectangle and the monitor index
GeomArgvs ==
  {<<T_prog>> \o OutArgs \o CropArgs(x, y, w, h) \o m :
     x \in XTokens, y \in YTokens, w \in WTokens, h \in HTokens,
     m \in {<<>>} \cup {<<S_monitor, t>> : t \in MonitorTokens}}

FormatTokens ==
  {S_png, <<"P", "N", "G">>, <<"P", "n", "g">>, <<"j", "p", "g">>, <<>>,
   <<"p", "n", "g", "x">>, <<"xFF">>}

\* command lines that vary what is present, missing or malformed
ShapeArgvs ==
  {<<T_prog>>,
   <<T_prog>> \o UnitCrop,
   <<T_prog>> \o OutArgs,
   <<T_prog, S_out, <<>>>> \o UnitCrop,
   <<T_prog>> \o UnitCrop \o <<S_out>>,
   <<T_prog>> \o OutArgs \o <<S_crop, IntToStr(0), IntToStr(0), IntToStr(1)>>,
   <<T_prog>> \o OutArgs \o CropArgs(IntToStr(0), IntToStr(0), IntToStr(0), IntToStr(1)),
   <<T_prog>> \o OutArgs \o CropArgs(IntToStr(0), IntToStr(0), IntToStr(1), IntToStr(-1)),
   <<T_prog>> \o OutArgs \o CropArgs(IntToStr(0), T_abc, IntToStr(1), IntToStr(1)),
   <<T_prog>> \o OutArgs \o CropArgs(<<" ", "+", "1", "x">>, IntToStr(0), IntToStr(1), IntToStr(1)),
   <<T_prog>> \o OutArgs \o UnitCrop \o <<S_monitor, T_abc>>,
   <<T_prog>> \o OutArgs \o UnitCrop \o <<S_monitor>>,
   <<T_prog>> \o OutArgs \o UnitCrop \o <<T_bogus>>,
   <<T_prog, T_bogus>> \o OutArgs \o UnitCrop,
   <<T_prog>> \o UnitCrop \o OutArgs \o UnitCrop,
   <<T_prog>> \o OutArgs \o UnitCrop \o <<S_format>>}
  \cup {<<T_prog>> \o OutArgs \o UnitCrop \o <<S_format, f>> : f \in FormatTokens}

DxgiArgvs == GeomArgvs \cup ShapeArgvs

\* DesktopCoordinates of the monitors an adapter may report: a square one at
\* the origin, a landscape one to its left and a portrait one to its right
MonitorRects == {Rect(0, 0, 2, 2), Rect(-3, -1, 0, 1), Rect(2, 0, 3, 2)}

\* the sequences of at most n different elements of S
RECURSIVE SeqsUpTo(_, _)
SeqsUpTo(S, n) ==
  IF n = 0 THEN {<<>>}
  ELSE LET shorter == SeqsUpTo(S, n - 1) IN
       shorter \cup
       UNION {{Append(q, e) : e \in {r \in S : \A k \in 1..Len(q) : q[k] # r}} :
                q \in {t \in shorter : Len(t) = n - 1}}

Layouts == SeqsUpTo(MonitorRects, MaxMonitors)

-----------------------------------------------------------------------------
(* the encoder steps both programs run, and what each does to the file *)

\* a successful WIC call: InitializeFromFilename opens (creates or truncates)
\* the file, the encoder's Commit completes the PNG in the open file; the other
\* calls leave the file as it is
WicStep(step, fs, h, path, img) ==
  IF step = "InitializeFromFilename"
    THEN [files |-> OpenForWrite(fs, path), handle |-> path]
  ELSE IF step = "EncoderCommit"
    THEN [files |-> FinishPng(fs, h, img), handle |-> h]
  ELSE [files |-> fs, handle |-> h]

\* the position of a step in a list of steps
StepIndex(steps, step) == CHOOSE i \in 1..Len(steps) : steps[i] = step
IsStep(steps, step) == \E i \in 1..Len(steps) : steps[i] = step

-----------------------------------------------------------------------------
(* monitor capture: main of DxgiScreenshot.cpp *)

\* the calls of SavePng, in order
SavePngSteps ==
  <<"CoCreateInstance", "CreateStream", "InitializeFromFilename", "CreateEncoder",
    "EncoderInitialize", "CreateNewFrame", "FrameInitialize", "SetSize",
    "SetPixelFormat", "WritePixels", "FrameCommit", "EncoderCommit">>

\* the window program's variables while the monitor program runs
\* the pixel copy is modelled byte by byte in a specification of its own; the
\* two programs' specifications leave its variables alone
NoMapping == [RowPitch |-> 0, pData |-> <<>>]
NoImage == [w |-> 0, h |-> 0, px |-> <<>>]
CopyIdle == mapped = NoMapping /\ pixels = <<>> /\ row = 0 /\ encoded = NoImage

\* the capture objects before CaptureWindowToPngFileEx creates any
NoCapture ==
  [handler |-> "none", session |-> "none", sessionCloses |-> 0, poolCloses |-> 0,
   inPool |-> 0, taken |-> 0, arrivals |-> 0, event |-> "none",
   captured |-> "none", writes |-> 0]

WgcIdle ==
  /\ wargs = [hwnd |-> 0, hasPath |-> FALSE, path |-> NoPath, clientOnly |-> 0]
  /\ win = [itemW |-> 0, itemH |-> 0]
  /\ hr = "none"
  /\ cb = "idle"
  /\ cap = NoCapture
  /\ guard = [path |-> NoPath, committed |-> FALSE, pending |-> FALSE]

InitDxgi ==
  /\ pc = "main"
  /\ CopyIdle
  /\ argv \in DxgiArgvs
  /\ options = DefaultOptions
  /\ outputs = <<>>
  /\ outputIndex = -1
  /\ cropRect = ZeroRect
  /\ desc = [w |-> 0, h |-> 0]
  /\ image = [w |-> 0, h |-> 0]
  /\ frameState = "none"
  /\ frameOps = <<>>
  /\ exitCode = -1
  /\ stdout = <<>>
  /\ files \in {f \in [Paths -> {Absent, Old}] : f[P_out \o S_tmp] = Absent}
  /\ handle = NoPath
  /\ captureTried = 0
  /\ wicShareDelete = FALSE
  /\ WgcIdle

\* return code from main
DxgiExit(code) == pc' = "exit" /\ exitCode' = code

\* the exit code of a process that ends abnormally (an access violation, or
\* std::terminate after an exception nobody catches; here abort's 3)
AbnormalExitCode == 3

\* lines 243-247: ParseArgs, usage and exit code 2
D_ParseArgs ==
  /\ pc = "main"
  /\ LET r == ParseArgs(argv) IN
     /\ options' = r.o
     /\ IF r.ok THEN pc' = "CoInitializeEx" /\ UNCHANGED exitCode ELSE DxgiExit(2)
  /\ UNCHANGED <<argv, outputs, outputIndex, cropRect, desc, image, frameState, frameOps, stdout,
                 files, handle, captureTried, wicShareDelete, wgcVars, copyVars>>

\* a platform call of main that only succeeds or fails: lines 251-254 (COM),
\* 256-261 (DXGI factory), 297-310 (device, hardware then WARP), 312-318
\* (DuplicateOutput), 361-366 (Map)
D_PlatformCall(at, next) ==
  /\ pc = at
  /\ \E ok \in BOOLEAN :
       IF ok THEN pc' = next /\ UNCHANGED exitCode ELSE DxgiExit(1)
  /\ UNCHANGED <<cropRect, desc, image, files, handle, captureTried, wicShareDelete,
                 dxgiVars, wgcVars, copyVars>>

D_CoInitializeEx == D_PlatformCall("CoInitializeEx", "CreateDXGIFactory1")
D_CreateFactory  == D_PlatformCall("CreateDXGIFactory1", "EnumOutputs")
D_CreateDevice   == D_PlatformCall("D3D11CreateDevice", "DuplicateOutput")
D_Duplicate      == D_PlatformCall("DuplicateOutput", "AcquireNextFrame")
D_Map            == D_PlatformCall("Map", "crop")

\* lines 263-275: every adapter's outputs, in order; none is a failure
D_Enumerate ==
  /\ pc = "EnumOutputs"
  /\ \E layout \in Layouts :
       /\ outputs' = layout
       /\ IF layout = <<>> THEN DxgiExit(1) ELSE pc' = "select" /\ UNCHANGED exitCode
  /\ UNCHANGED <<argv, options, outputIndex, cropRect, desc, image, frameState, frameOps, stdout,
                 files, handle, captureTried, wicShareDelete, wgcVars, copyVars>>

\* lines 277-295: the monitor, then the crop rectangle relative to it
D_Select ==
  /\ pc = "select"
  /\ LET idx == SelectOutputIndex(outputs, options) IN
     /\ outputIndex' = idx
     /\ IF idx < 0 \/ idx >= Len(outputs)
          THEN DxgiExit(1) /\ UNCHANGED cropRect
          ELSE LET r == CropRectForOutput(outputs[idx + 1], options.cropX, options.cropY,
                                          options.cropW, options.cropH)
               IN IF r.ok
                    THEN cropRect' = r.crop /\ pc' = "D3D11CreateDevice" /\ UNCHANGED exitCode
                    ELSE DxgiExit(1) /\ UNCHANGED cropRect
  /\ UNCHANGED <<argv, options, outputs, desc, image, frameState, frameOps, stdout,
                 files, handle, captureTried, wicShareDelete, wgcVars, copyVars>>

\* lines 320-332: one AcquireNextFrame(500, ...): a frame, a timeout or a failure
D_Acquire ==
  /\ pc = "AcquireNextFrame"
  /\ captureTried' = captureTried + 1
  /\ \E res \in {"frame", "timeout", "failed"} :
       IF res = "frame"
         THEN /\ frameState' = "held"
              /\ frameOps' = Append(frameOps, "AcquireNextFrame")
              /\ pc' = "AsTexture"
              /\ UNCHANGED exitCode
         ELSE DxgiExit(1) /\ UNCHANGED <<frameState, frameOps>>
  /\ UNCHANGED <<argv, options, outputs, outputIndex, cropRect, desc, image, stdout,
                 files, handle, wicShareDelete, wgcVars, copyVars>>

\* the size of the duplicated surface of a monitor: its desktop rectangle's
\* size, or that size turned when the monitor is rotated
FrameSizes(rect) ==
  LET w == rect.right - rect.left
      h == rect.bottom - rect.top
  IN {[w |-> w, h |-> h], [w |-> h, h |-> w]}

\* lines 334-343: the frame as a texture (ReleaseFrame on failure), its description
D_AsTexture ==
  /\ pc = "AsTexture"
  /\ \E ok \in BOOLEAN :
       IF ok
         THEN /\ desc' \in FrameSizes(outputs[outputIndex + 1])
              /\ frameOps' = frameOps \o <<"As", "GetDesc">>
              /\ pc' = "CreateTexture2D"
              /\ UNCHANGED <<exitCode, frameState>>
         ELSE /\ frameState' = "released"
              /\ frameOps' = frameOps \o <<"As", "ReleaseFrame">>
              /\ DxgiExit(1)
              /\ UNCHANGED desc
  /\ UNCHANGED <<argv, options, outputs, outputIndex, cropRect, image, stdout,
                 files, handle, captureTried, wicShareDelete, wgcVars, copyVars>>

\* D_CreateStaging returning on failure without ReleaseFrame
D_CreateStaging_NoRelease ==
  /\ pc = "CreateTexture2D"
  /\ \E ok \in BOOLEAN :
       IF ok
         THEN pc' = "CopyResource" /\ UNCHANGED <<exitCode, frameState, frameOps>>
         ELSE DxgiExit(1) /\ UNCHANGED <<frameState, frameOps>>
  /\ UNCHANGED <<argv, options, outputs, outputIndex, cropRect, desc, image, stdout,
                 files, handle, captureTried, wicShareDelete, wgcVars, copyVars>>

\* lines 344-356: the staging texture (ReleaseFrame on failure)
D_CreateStaging ==
  /\ pc = "CreateTexture2D"
  /\ \E ok \in BOOLEAN :
       IF ok
         THEN pc' = "CopyResource" /\ UNCHANGED <<exitCode, frameState, frameOps>>
         ELSE /\ frameState' = "released"
              /\ frameOps' = Append(frameOps, "ReleaseFrame")
              /\ DxgiExit(1)
  /\ UNCHANGED <<argv, options, outputs, outputIndex, cropRect, desc, image, stdout,
                 files, handle, captureTried, wicShareDelete, wgcVars, copyVars>>

\* lines 358-359: CopyResource into the staging texture, then ReleaseFrame
D_CopyRelease ==
  /\ pc = "CopyResource"
  /\ frameState' = "released"
  /\ frameOps' = frameOps \o <<"CopyResource", "ReleaseFrame">>
  /\ pc' = "Map"
  /\ UNCHANGED <<argv, options, outputs, outputIndex, cropRect, desc, image, stdout,
                 exitCode, files, handle, captureTried, wicShareDelete, wgcVars, copyVars>>

\* a row of the crop reaches past the last byte the mapping is sure to have
\* (RowPitch may be exactly Width * 4)
ReadsPastMapping(crop, d) ==
  crop.bottom > d.h \/ (crop.bottom = d.h /\ crop.right > d.w)

\* lines 368-378: the rows of the crop rectangle, packed; Unmap. The crop was
\* cut to the monitor's desktop rectangle, not to the frame's desc: a row loop
\* that reads past the mapped memory reads whatever is there, or the read
\* faults and the process ends abnormally
D_CropCopy ==
  /\ pc = "crop"
  /\ image' = [w |-> cropRect.right - cropRect.left, h |-> cropRect.bottom - cropRect.top]
  /\ \/ pc' = SavePngSteps[1] /\ UNCHANGED exitCode
     \/ /\ ReadsPastMapping(cropRect, desc)
        /\ pc' = "terminated"
        /\ exitCode' = AbnormalExitCode
  /\ UNCHANGED <<cropRect, desc, files, handle, captureTried, wicShareDelete,
                 dxgiVars, wgcVars, copyVars>>

\* lines 191-238: one call of SavePng(options.outPath, pixels, cropWidth,
\* cropHeight); a failed call returns false, which main turns into exit code 1
\* (lines 380-384); the stream is released when SavePng returns
D_SavePngStep ==
  /\ IsStep(SavePngSteps, pc)
  /\ \E ok \in BOOLEAN :
       IF ok
         THEN LET i == StepIndex(SavePngSteps, pc)
                  e == WicStep(pc, files, handle, options.outPath, image)
              IN /\ files' = e.files
                 /\ IF i = Len(SavePngSteps)
                      THEN handle' = NoPath /\ pc' = "saved"
                      ELSE handle' = e.handle /\ pc' = SavePngSteps[i + 1]
                 /\ UNCHANGED exitCode
         ELSE /\ handle' = NoPath
              /\ DxgiExit(1)
              /\ UNCHANGED files
  /\ UNCHANGED <<cropRect, desc, image, captureTried, wicShareDelete, dxgiVars, wgcVars, copyVars>>

\* lines 386-388: print the monitor index, exit code 0
D_Finish ==
  /\ pc = "saved"
  /\ stdout' = Append(stdout, <<"monitor=", outputIndex>>)
  /\ DxgiExit(0)
  /\ UNCHANGED <<argv, options, outputs, outputIndex, cropRect, desc, image, frameState, frameOps,
                 files, handle, captureTried, wicShareDelete, wgcVars, copyVars>>

NextDxgi ==
  \/ D_ParseArgs
  \/ D_CoInitializeEx
  \/ D_CreateFactory
  \/ D_Enumerate
  \/ D_Select
  \/ D_CreateDevice
  \/ D_Duplicate
  \/ D_Acquire
  \/ D_AsTexture
  \/ D_CreateStaging
  \/ D_CopyRelease
  \/ D_Map
  \/ D_CropCopy
  \/ D_SavePngStep
  \/ D_Finish

SpecDxgi == InitDxgi /\ [][NextDxgi]_vars

-----------------------------------------------------------------------------
(* window capture: WgcScreenshot.cpp *)

MaxFrames == 2

\* Direct3D11CaptureFramePool::CreateFreeThreaded(..., 1, size): numberOfBuffers
NumberOfBuffers == 1

\* PrintUsage returns 2
UsageExitCode == 2

\* static_cast<int>(hr) of a failed HRESULT, here E_FAIL (0x80004005)
FailedExitCode == -2147467259

FAILED(h) == h # "S_OK"

\* a window: the capture item's size, the origins GetWindowRect and
\* DwmGetWindowAttribute(DWMWA_EXTENDED_FRAME_BOUNDS) report, the client
\* rectangle's size and the screen position of the client area's origin
Window(iw, ih, rl, rt, dl, dt, cw, ch, tx, ty) ==
  [itemW |-> iw, itemH |-> ih, rectLeft |-> rl, rectTop |-> rt,
   dwmLeft |-> dl, dwmTop |-> dt, clientW |-> cw, clientH |-> ch,
   topLeftX |-> tx, topLeftY |-> ty]

Windows ==
  {Window(3, 2, 0, 0, 1, 0, 2, 1, 1, 1),
   Window(3, 2, 0, 0, 1, 0, 0, 1, 1, 1),
   Window(3, 2, 0, 0, 1, 0, 2, 0, 1, 1),
   Window(3, 2, 0, 0, 1, 0, 4, 3, 0, 0),
   Window(3, 2, 1, 0, 0, 0, 2, 2, 0, 0),
   Window(3, 2, 0, 0, 1, 0, 1, 1, 3, 0),
   Window(2, 2, 0, 0, 0, 0, 2, 2, 0, 0),
   Window(0, 0, 0, 0, 0, 0, 0, 0, 0, 0),
   Window(0, 2, 0, 0, 0, 0, 0, 1, 0, 1)}

\* what the four window queries of TryGetClientCropRect answer: all succeed;
\* GetWindowRect fails and DWM answers; both fail; GetClientRect fails;
\* ClientToScreen fails
Queries == {"ok", "dwm", "noFrame", "noClient", "noScreen"}

NoCrop == [q |-> "unasked", has |-> FALSE, x |-> 0, y |-> 0, width |-> 0, height |-> 0]

\* TryGetClientCropRect going on with the zeroed RECT and POINT when a window
\* query fails, instead of returning false
TryGetClientCropRect_Unchecked(w, q, d) ==
  LET failed == [ok |-> FALSE, x |-> 0, y |-> 0, width |-> 0, height |-> 0]
      frameLeft == IF q = "noFrame" THEN 0 ELSE IF q = "dwm" THEN w.dwmLeft ELSE w.rectLeft
      frameTop  == IF q = "noFrame" THEN 0 ELSE IF q = "dwm" THEN w.dwmTop ELSE w.rectTop
      cropX0 == (IF q = "noScreen" THEN 0 ELSE w.topLeftX) - frameLeft
      cropY0 == (IF q = "noScreen" THEN 0 ELSE w.topLeftY) - frameTop
      cropW0 == IF q = "noClient" THEN 0 ELSE w.clientW
      cropH0 == IF q = "noClient" THEN 0 ELSE w.clientH
      cropW1 == IF cropX0 < 0 THEN cropW0 + cropX0 ELSE cropW0
      cropX1 == IF cropX0 < 0 THEN 0 ELSE cropX0
      cropH1 == IF cropY0 < 0 THEN cropH0 + cropY0 ELSE cropH0
      cropY1 == IF cropY0 < 0 THEN 0 ELSE cropY0
      cropW2 == IF cropX1 + cropW1 > d.w THEN d.w - cropX1 ELSE cropW1
      cropH2 == IF cropY1 + cropH1 > d.h THEN d.h - cropY1 ELSE cropH1
  IN IF cropW0 <= 0 \/ cropH0 <= 0 THEN failed
     ELSE IF cropW2 <= 0 \/ cropH2 <= 0 THEN failed
     ELSE [ok |-> TRUE, x |-> cropX1, y |-> cropY1, width |-> cropW2, height |-> cropH2]

\* bool TryGetClientCropRect(hwnd, desc, crop) when the queries answer q:
\* [ok, x, y, width, height]
TryGetClientCropRect(w, q, d) ==
  LET failed == [ok |-> FALSE, x |-> 0, y |-> 0, width |-> 0, height |-> 0]
      frameLeft == IF q = "dwm" THEN w.dwmLeft ELSE w.rectLeft
      frameTop  == IF q = "dwm" THEN w.dwmTop ELSE w.rectTop
      cropX0 == w.topLeftX - frameLeft
      cropY0 == w.topLeftY - frameTop
      cropW0 == w.clientW
      cropH0 == w.clientH
      cropW1 == IF cropX0 < 0 THEN cropW0 + cropX0 ELSE cropW0
      cropX1 == IF cropX0 < 0 THEN 0 ELSE cropX0
      cropH1 == IF cropY0 < 0 THEN cropH0 + cropY0 ELSE cropH0
      cropY1 == IF cropY0 < 0 THEN 0 ELSE cropY0
      cropW2 == IF cropX1 + cropW1 > d.w THEN d.w - cropX1 ELSE cropW1
      cropH2 == IF cropY1 + cropH1 > d.h THEN d.h - cropY1 ELSE cropH1
  IN IF q \in {"noFrame", "noClient", "noScreen"} THEN failed
     ELSE IF cropW0 <= 0 \/ cropH0 <= 0 THEN failed
     ELSE IF cropW2 <= 0 \/ cropH2 <= 0 THEN failed
     ELSE [ok |-> TRUE, x |-> cropX1, y |-> cropY1, width |-> cropW2, height |-> cropH2]

NoGuard == [path |-> NoPath, committed |-> FALSE, pending |-> FALSE]

InitWgc ==
  /\ pc = "wmain"
  /\ CopyIdle
  /\ wargs \in [hwnd : {0, 1, 2}, hasPath : {TRUE}, path : {NoPath, P_out},
                clientOnly : {0, 1}]
               \cup [hwnd : {0, 1}, hasPath : {FALSE}, path : {NoPath}, clientOnly : {0, 1}]
  /\ win \in Windows
  /\ hr = "none"
  /\ cb = "idle"
  /\ cap = NoCapture
  /\ guard = NoGuard
  /\ cropRect = NoCrop
  /\ desc = [w |-> 0, h |-> 0]
  /\ image = [w |-> 0, h |-> 0]
  /\ exitCode = -1
  /\ files \in [Paths -> {Absent, Old}]
  /\ handle = NoPath
  /\ captureTried = 0
  /\ wicShareDelete \in BOOLEAN
  /\ argv = <<>>
  /\ options = DefaultOptions
  /\ outputs = <<>>
  /\ outputIndex = -1
  /\ frameState = "none"
  /\ frameOps = <<>>
  /\ stdout = <<>>

\* the process is running: its threads take steps
Running == pc \notin {"exit", "terminated"}

\* FirstDestructor had the CaptureScope been declared after the event: a
\* failed CreateEvent returns with nothing to destroy
FirstDestructor_ScopeAfterEvent(at) ==
  IF at \in {"CaptureWindowToPngFileEx", "CreateD3DDevice", "CreateDirect3DDevice",
             "CreateForWindow", "Size", "CreateEvent"}
    THEN "returned"
  ELSE "~revoker"

\* the first destructor to run when CaptureWindowToPngFileEx returns from the
\* statement at pc `at` (locals are destroyed in reverse order of declaration:
\* revoker, captured, frameEvent, captureScope)
FirstDestructor(at) ==
  IF at \in {"CaptureWindowToPngFileEx", "CreateD3DDevice", "CreateDirect3DDevice",
             "CreateForWindow", "Size"}
    THEN "returned"
  ELSE IF at = "CreateEvent" THEN "~CaptureScope"
  ELSE "~revoker"

\* return h; from CaptureWindowToPngFileEx at pc `at`
WReturn(at, h) == hr' = h /\ pc' = FirstDestructor(at)

\* lines 420-445: wmain before the call
W_Main ==
  /\ pc = "wmain"
  /\ IF wargs.hwnd = 0 \/ ~wargs.hasPath
       THEN pc' = "exit" /\ exitCode' = UsageExitCode
       ELSE pc' = "CaptureWindowToPngFileEx" /\ UNCHANGED exitCode
  /\ UNCHANGED <<cropRect, desc, files, handle, image, captureTried, wicShareDelete,
                 dxgiVars, wgcVars, copyVars>>

\* lines 279-300: the null checks, COM and the apartment
W_Entry ==
  /\ pc = "CaptureWindowToPngFileEx"
  /\ IF wargs.hwnd = 0 \/ ~wargs.hasPath
       THEN WReturn(pc, "E_INVALIDARG")
       ELSE pc' = "CreateD3DDevice" /\ UNCHANGED hr
  /\ UNCHANGED <<cropRect, desc, exitCode, files, handle, image, captureTried,
                 wicShareDelete, dxgiVars, wargs, win, cb, cap, guard, copyVars>>

\* a call that only succeeds or fails with its HRESULT returned: lines 302-308
\* (CreateD3DDevice), 310-315 (CreateDirect3DDeviceFromDXGI), 382-394 (the
\* frame's texture)
W_PlatformCall(at, next) ==
  /\ pc = at
  /\ \E ok \in BOOLEAN :
       IF ok THEN pc' = next /\ UNCHANGED hr ELSE WReturn(at, at)
  /\ UNCHANGED <<cropRect, desc, exitCode, files, handle, image, captureTried,
                 wicShareDelete, dxgiVars, wargs, win, cb, cap, guard, copyVars>>

W_CreateD3DDevice == W_PlatformCall("CreateD3DDevice", "CreateDirect3DDevice")
W_CreateDirect3DDevice == W_PlatformCall("CreateDirect3DDevice", "CreateForWindow")

\* lines 317-328: the capture item of the window; a handle that is no window fails
W_CreateForWindow ==
  /\ pc = "CreateForWindow"
  /\ \E ok \in BOOLEAN :
       IF ok /\ wargs.hwnd = 1 THEN pc' = "Size" /\ UNCHANGED hr ELSE WReturn(pc, pc)
  /\ UNCHANGED <<cropRect, desc, exitCode, files, handle, image, captureTried,
                 wicShareDelete, dxgiVars, wargs, win, cb, cap, guard, copyVars>>

\* W_Size without the test of the capture item's size
W_Size_Unchecked ==
  /\ pc = "Size"
  /\ pc' = "CreateFramePool"
  /\ UNCHANGED <<hr, cropRect, desc, exitCode, files, handle, image, captureTried,
                 wicShareDelete, dxgiVars, wargs, win, cb, cap, guard, copyVars>>

\* lines 330-334: the capture item's size
W_Size ==
  /\ pc = "Size"
  /\ IF win.itemW <= 0 \/ win.itemH <= 0
       THEN WReturn(pc, "E_FAIL")
       ELSE pc' = "CreateFramePool" /\ UNCHANGED hr
  /\ UNCHANGED <<cropRect, desc, exitCode, files, handle, image, captureTried,
                 wicShareDelete, dxgiVars, wargs, win, cb, cap, guard, copyVars>>

\* lines 336-353: the frame pool, the session and the scope that closes them;
\* CreateFreeThreaded and CreateCaptureSession report a failure by an
\* hresult_error nobody catches, which ends the process
W_CreateFramePool ==
  /\ pc = "CreateFramePool"
  /\ \E ok \in BOOLEAN :
       IF ok
         THEN /\ cap' = [cap EXCEPT !.session = "created"]
              /\ pc' = "CreateEvent"
              /\ UNCHANGED exitCode
         ELSE /\ pc' = "terminated"
              /\ exitCode' = AbnormalExitCode
              /\ UNCHANGED cap
  /\ UNCHANGED <<cropRect, desc, files, handle, image, captureTried,
                 wicShareDelete, dxgiVars, wargs, win, hr, cb, guard, copyVars>>

\* lines 355-358: the auto-reset event
W_CreateEvent ==
  /\ pc = "CreateEvent"
  /\ \E ok \in BOOLEAN :
       IF ok
         THEN /\ cap' = [cap EXCEPT !.event = "unsignaled"]
              /\ pc' = "FrameArrived"
              /\ UNCHANGED hr
         ELSE WReturn(pc, pc) /\ UNCHANGED cap
  /\ UNCHANGED <<cropRect, desc, exitCode, files, handle, image, captureTried,
                 wicShareDelete, dxgiVars, wargs, win, cb, guard, copyVars>>

\* lines 360-367: the empty captured slot and the FrameArrived handler
W_Register ==
  /\ pc = "FrameArrived"
  /\ cap' = [cap EXCEPT !.captured = "null", !.handler = "registered"]
  /\ pc' = "StartCapture"
  /\ UNCHANGED <<cropRect, desc, exitCode, files, handle, image, captureTried,
                 wicShareDelete, dxgiVars, wargs, win, hr, cb, guard, copyVars>>

\* line 369: session.StartCapture(); a failure is an hresult_error nobody
\* catches, which ends the process
W_StartCapture ==
  /\ pc = "StartCapture"
  /\ captureTried' = captureTried + 1
  /\ \E ok \in BOOLEAN :
       IF ok
         THEN /\ cap' = [cap EXCEPT !.session = "started"]
              /\ pc' = "WaitForSingleObject"
              /\ UNCHANGED exitCode
         ELSE /\ pc' = "terminated"
              /\ exitCode' = AbnormalExitCode
              /\ UNCHANGED cap
  /\ UNCHANGED <<cropRect, desc, files, handle, image, wicShareDelete,
                 dxgiVars, wargs, win, hr, cb, guard, copyVars>>

\* lines 371-372: WaitForSingleObject returns WAIT_OBJECT_0 and resets the event
W_WaitSignaled ==
  /\ pc = "WaitForSingleObject"
  /\ cap.event = "signaled"
  /\ cap' = [cap EXCEPT !.event = "unsignaled"]
  /\ pc' = "CheckCaptured"
  /\ UNCHANGED <<cropRect, desc, exitCode, files, handle, image, captureTried,
                 wicShareDelete, dxgiVars, wargs, win, hr, cb, guard, copyVars>>

\* W_WaitTimeout taking the expired wait for a success
W_WaitTimeout_Succeeds ==
  /\ pc = "WaitForSingleObject"
  /\ cap.event = "unsignaled"
  /\ WReturn(pc, "S_OK")
  /\ UNCHANGED <<cropRect, desc, exitCode, files, handle, image, captureTried,
                 wicShareDelete, dxgiVars, wargs, win, cb, cap, guard, copyVars>>

\* lines 371-375: the 2000 ms pass with the event not signaled
W_WaitTimeout ==
  /\ pc = "WaitForSingleObject"
  /\ cap.event = "unsignaled"
  /\ WReturn(pc, "WAIT_TIMEOUT")
  /\ UNCHANGED <<cropRect, desc, exitCode, files, handle, image, captureTried,
                 wicShareDelete, dxgiVars, wargs, win, cb, cap, guard, copyVars>>

\* lines 377-380: the main thread reads the captured slot
W_CheckCaptured ==
  /\ pc = "CheckCaptured"
  /\ IF cap.captured = "frame"
       THEN pc' = "GetTexture" /\ UNCHANGED hr
       ELSE WReturn(pc, "E_FAIL")
  /\ UNCHANGED <<cropRect, desc, exitCode, files, handle, image, captureTried,
                 wicShareDelete, dxgiVars, wargs, win, cb, cap, guard, copyVars>>

\* lines 382-394: the texture of the frame's surface
W_GetTexture == W_PlatformCall("GetTexture", "TryGetClientCropRect")

\* lines 396-404: the client crop when --client-only is given; the texture has
\* the size the frame pool was created with
W_Crop ==
  /\ pc = "TryGetClientCropRect"
  /\ desc' = [w |-> win.itemW, h |-> win.itemH]
  /\ IF wargs.clientOnly # 0
       THEN \E q \in Queries :
              LET r == TryGetClientCropRect(win, q, desc') IN
              cropRect' = [q |-> q, has |-> r.ok, x |-> r.x, y |-> r.y,
                           width |-> r.width, height |-> r.height]
       ELSE UNCHANGED cropRect
  /\ pc' = "SavePngFromTexture"
  /\ UNCHANGED <<exitCode, files, handle, image, captureTried,
                 wicShareDelete, dxgiVars, wgcVars, copyVars>>

\* the calls of SavePngFromTexture before the temporary file is opened
SavePrelude ==
  <<"CreateTexture2D", "MapStaging", "CoCreateInstance", "CreateEncoder", "CreateStream">>

\* the calls of SavePngFromTexture between opening the temporary file and
\* committing it
SaveEncodeSteps ==
  <<"EncoderInitialize", "CreateNewFrame", "FrameInitialize", "SetSize",
    "SetPixelFormat", "WritePixels", "FrameCommit", "EncoderCommit">>

\* lines 169-190: the size of the image handed to the encoder: the crop
\* rectangle's when there is one of positive size, else the texture's
OutputSize(crop, d) ==
  IF crop.has /\ crop.width > 0 /\ crop.height > 0
    THEN [w |-> crop.width, h |-> crop.height]
    ELSE [w |-> d.w, h |-> d.h]

\* lines 92-94: SavePngFromTexture rejects an empty path
W_SaveEntry ==
  /\ pc = "SavePngFromTexture"
  /\ IF wargs.path = <<>>
       THEN WReturn(pc, "E_INVALIDARG")
       ELSE pc' = SavePrelude[1] /\ UNCHANGED hr
  /\ UNCHANGED <<cropRect, desc, exitCode, files, handle, image, captureTried,
                 wicShareDelete, dxgiVars, wargs, win, cb, cap, guard, copyVars>>

\* lines 96-145: the staging texture, its mapping, the WIC factory, encoder
\* and stream; a failure returns before the temporary file is touched
W_SavePrelude ==
  /\ IsStep(SavePrelude, pc)
  /\ \E ok \in BOOLEAN :
       IF ok
         THEN LET i == StepIndex(SavePrelude, pc) IN
              /\ pc' = IF i = Len(SavePrelude) THEN "InitializeFromFilename"
                       ELSE SavePrelude[i + 1]
              /\ UNCHANGED hr
         ELSE WReturn(pc, pc)
  /\ UNCHANGED <<cropRect, desc, exitCode, files, handle, image, captureTried,
                 wicShareDelete, dxgiVars, wargs, win, cb, cap, guard, copyVars>>

\* lines 147-151: the guard on <path>.tmp, then the stream opened on that file
W_Open ==
  /\ pc = "InitializeFromFilename"
  /\ LET tmp == wargs.path \o S_tmp IN
     /\ guard' = [path |-> tmp, committed |-> FALSE, pending |-> FALSE]
     /\ \E ok \in BOOLEAN :
          IF ok
            THEN LET e == WicStep(pc, files, handle, tmp, image) IN
                 /\ files' = e.files
                 /\ handle' = e.handle
                 /\ pc' = SaveEncodeSteps[1]
                 /\ UNCHANGED hr
            ELSE /\ hr' = pc
                 /\ pc' = "~TempFileGuard"
                 /\ UNCHANGED <<files, handle>>
  /\ UNCHANGED <<cropRect, desc, exitCode, image, captureTried,
                 wicShareDelete, dxgiVars, wargs, win, cb, cap, copyVars>>

\* lines 153-217: one call of the encoder; the rows are cropped and the size
\* is chosen just before SetSize; a failed call returns its HRESULT
W_EncodeStep ==
  /\ IsStep(SaveEncodeSteps, pc)
  /\ image' = IF pc = "SetSize" THEN OutputSize(cropRect, desc) ELSE image
  /\ \E ok \in BOOLEAN :
       IF ok
         THEN LET i == StepIndex(SaveEncodeSteps, pc)
                  e == WicStep(pc, files, handle, guard.path, image)
              IN /\ files' = e.files
                 /\ handle' = e.handle
                 /\ pc' = IF i = Len(SaveEncodeSteps) THEN "CommitTo"
                          ELSE SaveEncodeSteps[i + 1]
                 /\ UNCHANGED hr
         ELSE /\ hr' = pc
              /\ pc' = "~TempFileGuard"
              /\ UNCHANGED <<files, handle>>
  /\ UNCHANGED <<cropRect, desc, exitCode, captureTried,
                 wicShareDelete, dxgiVars, wargs, win, cb, cap, guard, copyVars>>

\* MoveFileExW and DeleteFileW refuse a file that is open without
\* FILE_SHARE_DELETE
SharingAllows(h, path, share) == h # path \/ share

\* lines 219-224 and 40-48: TempFileGuard::CommitTo: MoveFileExW of the
\* temporary file over the destination (which the file system may refuse for
\* the destination's sake); an open handle stays with the renamed file
W_CommitTo ==
  /\ pc = "CommitTo"
  /\ \E targetOk \in BOOLEAN :
       IF targetOk /\ SharingAllows(handle, guard.path, wicShareDelete)
         THEN /\ files' = [files EXCEPT ![wargs.path] = files[guard.path],
                                        ![guard.path] = Absent]
              /\ handle' = IF handle = guard.path THEN wargs.path ELSE handle
              /\ guard' = [guard EXCEPT !.committed = TRUE]
              /\ hr' = "S_OK"
         ELSE /\ hr' = "MoveFileExW"
              /\ UNCHANGED <<files, handle, guard>>
  /\ pc' = "~TempFileGuard"
  /\ UNCHANGED <<cropRect, desc, exitCode, image, captureTried,
                 wicShareDelete, dxgiVars, wargs, win, cb, cap, copyVars>>

\* lines 49-53: ~TempFileGuard: DeleteFileW unless committed, its result
\* ignored; the guard is declared after the stream and the encoder, so it is
\* destroyed while they still hold the file open; a file open with
\* FILE_SHARE_DELETE is deleted when its last handle closes
W_GuardDtor ==
  /\ pc = "~TempFileGuard"
  /\ IF guard.committed \/ files[guard.path] = Absent
          \/ ~SharingAllows(handle, guard.path, wicShareDelete)
       THEN UNCHANGED <<files, guard>>
       ELSE IF handle = guard.path
         THEN guard' = [guard EXCEPT !.pending = TRUE] /\ UNCHANGED files
         ELSE files' = [files EXCEPT ![guard.path] = Absent] /\ UNCHANGED guard
  /\ pc' = "~stream"
  /\ UNCHANGED <<cropRect, desc, exitCode, handle, image, captureTried,
                 wicShareDelete, dxgiVars, wargs, win, hr, cb, cap, copyVars>>

\* the stream and the encoder are released: the file is closed, and deleted
\* if a delete is pending; SavePngFromTexture has returned
W_StreamRelease ==
  /\ pc = "~stream"
  /\ handle' = NoPath
  /\ files' = IF guard.pending THEN [files EXCEPT ![guard.path] = Absent] ELSE files
  /\ guard' = [guard EXCEPT !.pending = FALSE]
  /\ pc' = "~revoker"
  /\ UNCHANGED <<cropRect, desc, exitCode, image, captureTried,
                 wicShareDelete, dxgiVars, wargs, win, hr, cb, cap, copyVars>>

\* ~revoker: the FrameArrived handler is removed; a callback already running
\* is not waited for
W_RevokerDtor ==
  /\ pc = "~revoker"
  /\ cap' = [cap EXCEPT !.handler = "revoked"]
  /\ pc' = "~captured"
  /\ UNCHANGED <<cropRect, desc, exitCode, files, handle, image, captureTried,
                 wicShareDelete, dxgiVars, wargs, win, hr, cb, guard, copyVars>>

\* ~captured: the slot releases its frame
W_CapturedDtor ==
  /\ pc = "~captured"
  /\ cap' = [cap EXCEPT !.captured = "destroyed"]
  /\ pc' = "~frameEvent"
  /\ UNCHANGED <<cropRect, desc, exitCode, files, handle, image, captureTried,
                 wicShareDelete, dxgiVars, wargs, win, hr, cb, guard, copyVars>>

\* ~frameEvent: CloseHandle
W_EventDtor ==
  /\ pc = "~frameEvent"
  /\ cap' = [cap EXCEPT !.event = "closed"]
  /\ pc' = "~CaptureScope"
  /\ UNCHANGED <<cropRect, desc, exitCode, files, handle, image, captureTried,
                 wicShareDelete, dxgiVars, wargs, win, hr, cb, guard, copyVars>>

\* lines 345-352: ~CaptureScope: session.Close() and framePool.Close()
CloseCapture(c) ==
  [c EXCEPT !.session = "closed", !.sessionCloses = @ + 1, !.poolCloses = @ + 1,
            !.inPool = 0]

W_ScopeDtor ==
  /\ pc = "~CaptureScope"
  /\ cap' = CloseCapture(cap)
  /\ pc' = "returned"
  /\ UNCHANGED <<cropRect, desc, exitCode, files, handle, image, captureTried,
                 wicShareDelete, dxgiVars, wargs, win, hr, cb, guard, copyVars>>

\* lines 444-445: wmain returns the HRESULT, or 0
W_Exit ==
  /\ pc = "returned"
  /\ exitCode' = IF FAILED(hr) THEN FailedExitCode ELSE 0
  /\ pc' = "exit"
  /\ UNCHANGED <<cropRect, desc, files, handle, image, captureTried,
                 wicShareDelete, dxgiVars, wgcVars, copyVars>>

\* frames taken from the pool and not yet released
Outstanding == IF cb \in {"assign", "SetEvent"} \/ cap.captured = "frame" THEN 1 ELSE 0

\* the compositor delivers a frame into a free buffer of the started session's
\* pool and raises FrameArrived, which runs the handler if it is registered
P_FrameArrives ==
  /\ Running
  /\ cap.session = "started"
  /\ cap.arrivals < MaxFrames
  /\ cap.inPool + Outstanding < NumberOfBuffers
  /\ cap' = [cap EXCEPT !.inPool = @ + 1, !.arrivals = @ + 1]
  /\ cb' = IF cap.handler = "registered" /\ cb = "idle" THEN "TryGetNextFrame" ELSE cb
  /\ UNCHANGED <<pc, cropRect, desc, exitCode, files, handle, image, captureTried,
                 wicShareDelete, dxgiVars, wargs, win, hr, guard, copyVars>>

\* line 362: the callback takes the next frame; a closed pool gives none
CB_TryGetNextFrame ==
  /\ Running
  /\ cb = "TryGetNextFrame"
  /\ IF cap.session # "closed" /\ cap.inPool > 0
       THEN cap' = [cap EXCEPT !.inPool = @ - 1, !.taken = @ + 1] /\ cb' = "assign"
       ELSE cb' = "idle" /\ UNCHANGED cap
  /\ UNCHANGED <<pc, cropRect, desc, exitCode, files, handle, image, captureTried,
                 wicShareDelete, dxgiVars, wargs, win, hr, guard, copyVars>>

\* line 364: captured = frame; once the main thread has destroyed the slot the
\* write goes to a dead object: the process goes on or ends abnormally
CB_Assign ==
  /\ Running
  /\ cb = "assign"
  /\ IF cap.captured = "null"
       THEN /\ cap' = [cap EXCEPT !.captured = "frame", !.writes = @ + 1]
            /\ cb' = "SetEvent"
            /\ UNCHANGED <<pc, exitCode>>
       ELSE /\ cap' = [cap EXCEPT !.writes = @ + 1]
            /\ \/ cb' = "SetEvent" /\ UNCHANGED <<pc, exitCode>>
               \/ cb' = "idle" /\ pc' = "terminated" /\ exitCode' = AbnormalExitCode
  /\ UNCHANGED <<cropRect, desc, files, handle, image, captureTried,
                 wicShareDelete, dxgiVars, wargs, win, hr, guard, copyVars>>

\* line 365: SetEvent; on a closed handle it fails
CB_SetEvent ==
  /\ Running
  /\ cb = "SetEvent"
  /\ cap' = [cap EXCEPT !.event = IF @ = "closed" THEN @ ELSE "signaled"]
  /\ cb' = "idle"
  /\ UNCHANGED <<pc, cropRect, desc, exitCode, files, handle, image, captureTried,
                 wicShareDelete, dxgiVars, wargs, win, hr, guard, copyVars>>

NextWgc ==
  \/ W_Main
  \/ W_Entry
  \/ W_CreateD3DDevice
  \/ W_CreateDirect3DDevice
  \/ W_CreateForWindow
  \/ W_Size
  \/ W_CreateFramePool
  \/ W_CreateEvent
  \/ W_Register
  \/ W_StartCapture
  \/ W_WaitSignaled
  \/ W_WaitTimeout
  \/ W_CheckCaptured
  \/ W_GetTexture
  \/ W_Crop
  \/ W_SaveEntry
  \/ W_SavePrelude
  \/ W_Open
  \/ W_EncodeStep
  \/ W_CommitTo
  \/ W_GuardDtor
  \/ W_StreamRelease
  \/ W_RevokerDtor
  \/ W_CapturedDtor
  \/ W_EventDtor
  \/ W_ScopeDtor
  \/ W_Exit
  \/ P_FrameArrives
  \/ CB_TryGetNextFrame
  \/ CB_Assign
  \/ CB_SetEvent

SpecWgc == InitWgc /\ [][NextWgc]_vars

-----------------------------------------------------------------------------
(* both programs, with the progress their threads make *)

\* the steps of the window program's main thread
MainThread ==
  \/ W_Main
  \/ W_Entry
  \/ W_CreateD3DDevice
  \/ W_CreateDirect3DDevice
  \/ W_CreateForWindow
  \/ W_Size
  \/ W_CreateFramePool
  \/ W_CreateEvent
  \/ W_Register
  \/ W_StartCapture
  \/ W_WaitSignaled
  \/ W_WaitTimeout
  \/ W_CheckCaptured
  \/ W_GetTexture
  \/ W_Crop
  \/ W_SaveEntry
  \/ W_SavePrelude
  \/ W_Open
  \/ W_EncodeStep
  \/ W_CommitTo
  \/ W_GuardDtor
  \/ W_StreamRelease
  \/ W_RevokerDtor
  \/ W_CapturedDtor
  \/ W_EventDtor
  \/ W_ScopeDtor
  \/ W_Exit

\* command lines for the monitor program that reach every outcome of the
\* frame acquisition: the malformed ones and a few well-formed crops
AttemptArgvs ==
  ShapeArgvs \cup
  {<<T_prog>> \o OutArgs \o CropArgs(IntToStr(x), IntToStr(0), IntToStr(w), IntToStr(1)) \o m :
     x \in {0, 1}, w \in {1, 2}, m \in {<<>>, <<S_monitor, IntToStr(1)>>}}

\* one invocation of either program; the monitor program's argv holds the
\* program name, the window program's arguments are in wargs
InitEither == (InitDxgi /\ argv \in AttemptArgvs) \/ InitWgc

DxgiStep == argv # <<>> /\ NextDxgi
WgcStep == argv = <<>> /\ NextWgc
WgcMainStep == argv = <<>> /\ MainThread

NextEither == DxgiStep \/ WgcStep

\* every call of either main thread returns, and both waits are bounded (500 ms,
\* 2000 ms): the main thread always takes its next step; nothing is assumed
\* of the platform's callback thread
SpecEither ==
  InitEither /\ [][NextEither]_vars /\ WF_vars(DxgiStep) /\ WF_vars(WgcMainStep)

-----------------------------------------------------------------------------
(* the pixel copy of both programs, byte by byte *)

MaxSurfaceWidth == 2
MaxSurfaceHeight == 2
MaxPadding == 4

\* 32bpp BGRA: the literal 4 of the row copies
BytesPerPixel == 4

\* byte k of the source pixel (x, y); a padding byte of row y; a zero byte
PixelByte(x, y, k) == <<x, y, k>>
PadByte(y, i) == <<-1, y, i>>
ZeroByte == <<-2, 0, 0>>

\* ID3D11DeviceContext::Map of a w x h staging texture whose rows are pad
\* bytes longer than the pixels: RowPitch and the memory at pData
MappedSurface(w, h, pad) ==
  LET pitch == w * BytesPerPixel + pad IN
  [RowPitch |-> pitch,
   pData |-> [i \in 0..(pitch * h - 1) |->
                IF i % pitch < w * BytesPerPixel
                  THEN PixelByte((i % pitch) \div BytesPerPixel, i \div pitch,
                                 (i % pitch) % BytesPerPixel)
                  ELSE PadByte(i \div pitch, i % pitch)]]

\* std::vector<uint8_t>(n): n zero bytes
ZeroVector(n) == [i \in 0..(n - 1) |-> ZeroByte]

\* std::memcpy(dest + destOff, src + srcOff, n)
memcpy(dest, destOff, src, srcOff, n) ==
  [i \in DOMAIN dest |->
     IF i >= destOff /\ i < destOff + n THEN src[srcOff + (i - destOff)] ELSE dest[i]]

\* the row loop reading the source as if its rows were packed
CopyRow_Packed(buf, m, crop, y) ==
  LET cropWidth == crop.right - crop.left
      rowOff == (crop.top + y) * cropWidth * BytesPerPixel + crop.left * BytesPerPixel
      destOff == y * cropWidth * BytesPerPixel
  IN memcpy(buf, destOff, m.pData, rowOff, cropWidth * BytesPerPixel)

\* DxgiScreenshot.cpp lines 372-376: the body of the row loop for row y
CopyRow(buf, m, crop, y) ==
  LET cropWidth == crop.right - crop.left
      rowOff == (crop.top + y) * m.RowPitch + crop.left * BytesPerPixel
      destOff == y * cropWidth * BytesPerPixel
  IN memcpy(buf, destOff, m.pData, rowOff, cropWidth * BytesPerPixel)

\* WgcScreenshot.cpp lines 183-189: the body of the row loop for row y
CroppedRow(buf, m, crop, y) ==
  LET outputStride == crop.width * BytesPerPixel
      sourceOff == (crop.y + y) * m.RowPitch + crop.x * BytesPerPixel
      destOff == y * outputStride
  IN memcpy(buf, destOff, m.pData, sourceOff, outputStride)

\* IWICBitmapFrameEncode::WritePixels(lineCount, cbStride, cbBufferSize, pbPixels)
\* after SetSize(width, lineCount): lineCount rows of width pixels, each row
\* cbStride bytes after the one before
WritePixels(width, lineCount, cbStride, pbPixels) ==
  [w |-> width, h |-> lineCount,
   px |-> [p \in (0..(width - 1)) \X (0..(lineCount - 1)) |->
             [k \in 0..(BytesPerPixel - 1) |->
                pbPixels[p[2] * cbStride + p[1] * BytesPerPixel + k]]]]

\* the crop rectangles inside a w x h surface, as [x, y, width, height]
CropsWithin(w, h) ==
  {c \in [x : 0..(w - 1), y : 0..(h - 1), width : 1..w, height : 1..h] :
     c.x + c.width <= w /\ c.y + c.height <= h}

InitCopy ==
  /\ WgcIdle
  /\ argv = <<>>
  /\ options = DefaultOptions
  /\ outputs = <<>>
  /\ outputIndex = -1
  /\ frameState = "none"
  /\ frameOps = <<>>
  /\ stdout = <<>>
  /\ exitCode = -1
  /\ files = [p \in Paths |-> Absent]
  /\ handle = NoPath
  /\ image = [w |-> 0, h |-> 0]
  /\ captureTried = 0
  /\ wicShareDelete = FALSE
  /\ pixels = <<>>
  /\ row = 0
  /\ encoded = NoImage
  /\ \E w \in 1..MaxSurfaceWidth, h \in 1..MaxSurfaceHeight, pad \in 0..MaxPadding :
       /\ desc = [w |-> w, h |-> h]
       /\ mapped = MappedSurface(w, h, pad)
       /\ \/ \E c \in CropsWithin(w, h) :
               /\ pc = "crop"
               /\ cropRect = Rect(c.x, c.y, c.x + c.width, c.y + c.height)
          \/ \E c \in CropsWithin(w, h) :
               /\ pc = "cropped"
               /\ cropRect = [q |-> "ok", has |-> TRUE, x |-> c.x, y |-> c.y,
                              width |-> c.width, height |-> c.height]
          \/ pc = "cropped" /\ cropRect = NoCrop

\* DxgiScreenshot.cpp lines 368-371: the pixels vector
DC_Alloc ==
  /\ pc = "crop"
  /\ LET cropWidth == cropRect.right - cropRect.left
         cropHeight == cropRect.bottom - cropRect.top
     IN pixels' = ZeroVector(cropWidth * cropHeight * BytesPerPixel)
  /\ row' = 0
  /\ pc' = "for"
  /\ UNCHANGED <<cropRect, desc, exitCode, files, handle, image, captureTried,
                 wicShareDelete, dxgiVars, wgcVars, mapped, encoded>>

\* DxgiScreenshot.cpp lines 372-376: one turn of the row loop
DC_CopyRow ==
  /\ pc = "for"
  /\ row < cropRect.bottom - cropRect.top
  /\ pixels' = CopyRow(pixels, mapped, cropRect, row)
  /\ row' = row + 1
  /\ UNCHANGED <<pc, cropRect, desc, exitCode, files, handle, image, captureTried,
                 wicShareDelete, dxgiVars, wgcVars, mapped, encoded>>

\* DxgiScreenshot.cpp lines 380 and 219-228: SavePng(path, pixels, cropWidth,
\* cropHeight) sets the size and writes the rows with stride width * 4
DC_WritePixels ==
  /\ pc = "for"
  /\ row >= cropRect.bottom - cropRect.top
  /\ LET width == cropRect.right - cropRect.left
         height == cropRect.bottom - cropRect.top
     IN encoded' = WritePixels(width, height, width * BytesPerPixel, pixels)
  /\ pc' = "encoded"
  /\ UNCHANGED <<cropRect, desc, exitCode, files, handle, image, captureTried,
                 wicShareDelete, dxgiVars, wgcVars, mapped, pixels, row>>

\* WgcScreenshot.cpp lines 169-181: with a crop of positive size the cropped
\* vector is sized; without one the mapped memory itself is the output
WC_Alloc ==
  /\ pc = "cropped"
  /\ IF cropRect.has /\ cropRect.width > 0 /\ cropRect.height > 0
       THEN /\ pixels' = ZeroVector(cropRect.width * BytesPerPixel * cropRect.height)
            /\ pc' = "for y"
       ELSE /\ pixels' = pixels
            /\ pc' = "WritePixels"
  /\ row' = 0
  /\ UNCHANGED <<cropRect, desc, exitCode, files, handle, image, captureTried,
                 wicShareDelete, dxgiVars, wgcVars, mapped, encoded>>

\* WgcScreenshot.cpp lines 183-189: one turn of the row loop
WC_CopyRow ==
  /\ pc = "for y"
  /\ row < cropRect.height
  /\ pixels' = CroppedRow(pixels, mapped, cropRect, row)
  /\ row' = row + 1
  /\ UNCHANGED <<pc, cropRect, desc, exitCode, files, handle, image, captureTried,
                 wicShareDelete, dxgiVars, wgcVars, mapped, encoded>>

\* WgcScreenshot.cpp lines 190-203: SetSize and WritePixels of the cropped
\* vector with stride width * 4
WC_WriteCropped ==
  /\ pc = "for y"
  /\ row >= cropRect.height
  /\ encoded' = WritePixels(cropRect.width, cropRect.height,
                            cropRect.width * BytesPerPixel, pixels)
  /\ pc' = "encoded"
  /\ UNCHANGED <<cropRect, desc, exitCode, files, handle, image, captureTried,
                 wicShareDelete, dxgiVars, wgcVars, mapped, pixels, row>>

\* WgcScreenshot.cpp lines 165-168 and 192-203: SetSize and WritePixels of the
\* mapped memory with stride RowPitch
WC_WriteMapped ==
  /\ pc = "WritePixels"
  /\ encoded' = WritePixels(desc.w, desc.h, mapped.RowPitch, mapped.pData)
  /\ pc' = "encoded"
  /\ UNCHANGED <<cropRect, desc, exitCode, files, handle, image, captureTried,
                 wicShareDelete, dxgiVars, wgcVars, mapped, pixels, row>>

NextCopy ==
  \/ DC_Alloc
  \/ DC_CopyRow
  \/ DC_WritePixels
  \/ WC_Alloc
  \/ WC_CopyRow
  \/ WC_WriteCropped
  \/ WC_WriteMapped

SpecCopy == InitCopy /\ [][NextCopy]_vars

-----------------------------------------------------------------------------
(* claims about the monitor program *)

\* the destination is as it was before the program ran: the program only ever
\* turns a file into a truncated one or into a PNG
DestinationUntouched == files[P_out].kind \in {"absent", "old"}

\* C1: the PNG is encoded into a temporary file and renamed over the
\* destination only after every encoding step succeeded: no truncated or
\* partial file is ever visible at the destination, and when the program fails
\* the destination does not exist or still has its old content.
C1_AtomicWrite ==
  /\ files[P_out].kind # "partial"
  /\ (pc = "exit" /\ exitCode # 0) => DestinationUntouched

\* the point (x + w/2, y + h/2) lies in rect, computed without leaving the integers
C2_CentreInside(rect, o) ==
  /\ o.cropX >= rect.left - Half(o.cropW)
  /\ o.cropX < rect.right - Half(o.cropW)
  /\ o.cropY >= rect.top - Half(o.cropH)
  /\ o.cropY < rect.bottom - Half(o.cropH)

C2_ExpectedIndex ==
  LET n == Len(outputs)
      inside == {i \in 1..n : C2_CentreInside(outputs[i], options)}
  IN IF options.monitorIndex \in 0..(n - 1) THEN options.monitorIndex
     ELSE IF inside # {} THEN (CHOOSE i \in inside : \A k \in inside : i <= k) - 1
     ELSE 0

\* C2: with n >= 1 monitors, an explicit index in [0, n) is the selected
\* monitor; otherwise the selected monitor is the lowest-index one containing
\* the centre of the crop, or monitor 0 if none does; the selected index is
\* always in [0, n).
C2_MonitorSelection ==
  (outputs # <<>> /\ pc # "select") =>
     /\ outputIndex = C2_ExpectedIndex
     /\ outputIndex \in 0..(Len(outputs) - 1)

\* C2 witness: an explicit index past the last monitor, and the centre of the
\* crop picks the second monitor.
C2_Witness ==
  /\ pc = "D3D11CreateDevice"
  /\ Len(outputs) = 2
  /\ options.monitorIndex >= 2
  /\ outputIndex = 1

\* min(x + w, bound) for w > 0, computed without leaving the integers
C3_RightEdge(x, w, bound) ==
  IF x < 0 THEN Min(x + w, bound)
  ELSE IF x >= bound THEN bound
  ELSE IF w <= bound - x THEN x + w
  ELSE bound

\* the caller's rectangle cut to the monitor, relative to the monitor's origin
C3_Intersection ==
  LET d == outputs[outputIndex + 1]
      l == Max(options.cropX, d.left)
      t == Max(options.cropY, d.top)
      r == C3_RightEdge(options.cropX, options.cropW, d.right)
      b == C3_RightEdge(options.cropY, options.cropH, d.bottom)
  IN IF l < r /\ t < b
       THEN [ok |-> TRUE, crop |-> Rect(l - d.left, t - d.top, r - d.left, b - d.top)]
       ELSE [ok |-> FALSE, crop |-> ZeroRect]

\* C3: CropRectForOutput succeeds exactly when the caller's rectangle, moved
\* to the monitor's origin, meets the monitor in a rectangle of positive width
\* and height, and then yields that rectangle; otherwise the program exits
\* with 1 before any capture attempt and without writing a file.
C3_CropGeometry ==
  (outputs # <<>> /\ pc # "select" /\ outputIndex \in 0..(Len(outputs) - 1)) =>
     IF C3_Intersection.ok
       THEN cropRect = C3_Intersection.crop
       ELSE /\ pc = "exit" /\ exitCode = 1
            /\ captureTried = 0
            /\ DestinationUntouched /\ handle = NoPath

\* what holds of the exit codes besides the argument errors: an argument error
\* exits before any capture and any file; exit code 0 means the PNG is at the
\* output path and the monitor index was printed; every other exit is 1
C8_AfterParsing ==
  /\ pc \in {"exit", "terminated"} => exitCode \in {0, 1, 2}
  /\ exitCode = 2 => (captureTried = 0 /\ DestinationUntouched /\ stdout = <<>>)
  /\ exitCode = 0 => /\ files[P_out] = Png(image.w, image.h)
                     /\ stdout = <<(<<"monitor=", outputIndex>>)>>
  /\ exitCode = 1 => (ParseLoop(argv, 1, DefaultOptions).ok /\ stdout = <<>>)

\* the argument errors the claim lists, on the options as parsed
C8_ListedError ==
  \/ ParseLoop(argv, 1, DefaultOptions).err = "unknown"
  \/ options.outPath = <<>>
  \/ options.cropW <= 0
  \/ options.cropH <= 0
  \/ ToLower(options.format) # S_png

\* C8 as stated: the exit code is 2 exactly when the output path is missing,
\* the crop width or height is not positive, an argument is unknown or the
\* requested format is not png (compared case-insensitively).
C8_ExitCodesAsStated ==
  /\ C8_AfterParsing
  /\ pc = "exit" => (exitCode = 2 <=> C8_ListedError)

\* the argument errors of the code: those listed, a crop or monitor value that
\* is no number, and only a non-empty format can be wrong
C8_ArgumentError ==
  \/ ParseLoop(argv, 1, DefaultOptions).err \in {"unknown", "number"}
  \/ options.outPath = <<>>
  \/ options.cropW <= 0
  \/ options.cropH <= 0
  \/ (options.format # <<>> /\ ToLower(options.format) # S_png)

\* C8 with the argument errors of the code: the exit code is 2 exactly when an argument is unknown or lacks
\* its values, a crop or monitor value is no number, the output path is
\* missing or empty, the crop width or height is not positive, or a non-empty
\* format is not png (case-insensitively); an empty format is accepted.
C8_ExitCodes ==
  /\ C8_AfterParsing
  /\ pc = "exit" => (exitCode = 2 <=> C8_ArgumentError)

\* C8 witness: --format jpg ends with exit code 2.
C8_Witness ==
  /\ pc = "exit" /\ exitCode = 2
  /\ options.format = <<"j", "p", "g">>

-----------------------------------------------------------------------------
(* claims about the pixel copy *)

\* the crop the copy was given, as [x, y, width, height]: the monitor
\* program's RECT, the window program's CropRect, or the whole surface
C4_Crop ==
  IF "left" \in DOMAIN cropRect
    THEN [x |-> cropRect.left, y |-> cropRect.top,
          width |-> cropRect.right - cropRect.left,
          height |-> cropRect.bottom - cropRect.top]
  ELSE IF cropRect.has
    THEN [x |-> cropRect.x, y |-> cropRect.y,
          width |-> cropRect.width, height |-> cropRect.height]
  ELSE [x |-> 0, y |-> 0, width |-> desc.w, height |-> desc.h]

\* C4: for a source whose row stride is at least width*4 and an in-bounds
\* crop, the image handed to the encoder is cropWidth x cropHeight and its
\* pixel (x, y) is the source pixel (cropLeft + x, cropTop + y); without a crop
\* it is the full surface; no padding byte is encoded and no row is shifted,
\* in both programs.
C4_PixelTransfer ==
  pc = "encoded" =>
    /\ encoded.w = C4_Crop.width
    /\ encoded.h = C4_Crop.height
    /\ \A x \in 0..(C4_Crop.width - 1), y \in 0..(C4_Crop.height - 1),
          k \in 0..(BytesPerPixel - 1) :
         encoded.px[<<x, y>>][k] = PixelByte(C4_Crop.x + x, C4_Crop.y + y, k)

\* C4 witness: the monitor program encoded a crop that starts inside a surface
\* with padded rows and is more than one row high.
C4_Witness ==
  /\ pc = "encoded"
  /\ "left" \in DOMAIN cropRect
  /\ mapped.RowPitch > desc.w * BytesPerPixel
  /\ cropRect.left > 0
  /\ encoded.h > 1

-----------------------------------------------------------------------------
(* claims about the window program *)

\* the answers of the window queries with which no client crop can be computed
C5_Unavailable == {"noFrame", "noClient", "noScreen"}

\* C5: with --client-only, when the client crop cannot be computed (both frame
\* queries fail, the client-rect query fails or the client-to-screen
\* conversion fails) the capture does not fail for that reason: it goes on
\* with no crop rectangle, the encoder gets the full frame's size, and a run
\* that ends with 0 left a PNG of the full frame's size at the output path.
C5_FullFrameFallback ==
  cropRect.q \in C5_Unavailable =>
    /\ wargs.clientOnly # 0
    /\ ~cropRect.has
    /\ pc = "SavePngFromTexture" => hr = "none"
    /\ image \in {[w |-> 0, h |-> 0], desc}
    /\ (pc = "exit" /\ hr = "S_OK") => exitCode = 0
    /\ (pc = "exit" /\ exitCode = 0) => files[wargs.path] = Png(desc.w, desc.h)

\* C5 witness: the client-rect query failed and the run ended with 0 and a
\* full-frame PNG.
C5_Witness ==
  /\ cropRect.q = "noClient"
  /\ pc = "exit" /\ exitCode = 0
  /\ files[P_out] = Png(win.itemW, win.itemH)

\* the capture of an invalid target fails: no PNG is ever written at the
\* output path and the process ends with a non-zero code
C6_Fails(invalid) ==
  invalid =>
    /\ files[P_out].kind # "png"
    /\ pc \in {"exit", "terminated"} => exitCode # 0

\* C6 as stated: the capture fails whenever the handle is null or the window's
\* client area has zero width or zero height, with or without --client-only.
C6_ZeroClientAreaFails ==
  C6_Fails(wargs.hwnd = 0 \/ win.clientW = 0 \/ win.clientH = 0)

\* C6 amended: the capture fails whenever the handle is null or the capture
\* item of the window reports a width or height that is not positive, with or
\* without --client-only.
C6_InvalidTargetFails ==
  C6_Fails(wargs.hwnd = 0 \/ win.itemW <= 0 \/ win.itemH <= 0)

\* C6 witness: a window whose capture item has width 0 was refused with E_FAIL.
C6_Witness ==
  /\ pc = "exit" /\ exitCode = FailedExitCode
  /\ wargs.hwnd = 1 /\ win.itemW = 0 /\ win.itemH > 0
  /\ hr = "E_FAIL"

\* the main thread has left SavePngFromTexture
C7_Returned ==
  pc \in {"~revoker", "~captured", "~frameEvent", "~CaptureScope", "returned", "exit"}

\* C7: after SavePngFromTexture returned with its guard constructed (success,
\* a failed encoding step, a failed open of the temporary file, a failed
\* rename), no file exists at <output path>.tmp.
C7_NoTempFileLeft ==
  (C7_Returned /\ guard.path # NoPath) => files[guard.path] = Absent

\* the main thread is past the wait: it reads the slot or tears down
C9_PastWait ==
  pc \in {"CheckCaptured", "~revoker", "~captured", "~frameEvent", "~CaptureScope", "returned"}

\* C9: the slot is assigned at most once; a signaled event means the slot was
\* assigned; the main thread reads the slot only after a signaled wait, when
\* it holds the frame; and while the main thread reads the slot or tears down
\* after a timeout no callback is in flight that has yet to use the frame
\* pool, write the slot or set the event.
C9_HandOff ==
  /\ cap.writes <= 1
  /\ cap.event = "signaled" => cap.captured = "frame"
  /\ pc = "CheckCaptured" => cap.captured = "frame"
  /\ (C9_PastWait /\ hr \in {"none", "WAIT_TIMEOUT"}) => cb = "idle"

\* C10: once the session and the frame pool exist, both are closed exactly
\* once before CaptureWindowToPngFileEx returns, on every return path, never
\* more than once, and at most one frame is taken from the pool.
C10_Teardown ==
  /\ cap.sessionCloses <= 1
  /\ cap.poolCloses <= 1
  /\ cap.taken <= 1
  /\ (pc \in {"returned", "exit"} /\ cap.session # "none")
       => (cap.session = "closed" /\ cap.sessionCloses = 1 /\ cap.poolCloses = 1)

\* C10 witness: a successful capture returned with the session and the pool
\* closed once and one frame taken.
C10_Witness ==
  /\ pc = "returned" /\ hr = "S_OK"
  /\ cap.sessionCloses = 1 /\ cap.poolCloses = 1 /\ cap.taken = 1

-----------------------------------------------------------------------------
(* claims about the frame's lifetime, the single attempt and the crop's bounds *)

\* how many ReleaseFrame calls were made
C11_Releases == Cardinality({i \in 1..Len(frameOps) : frameOps[i] = "ReleaseFrame"})

\* the main thread is at or past the mapping of the staging surface
C11_StagingInUse == pc \in {"Map", "crop", "saved"} \/ IsStep(SavePngSteps, pc)

\* C11: when AcquireNextFrame succeeded, ReleaseFrame is called exactly once
\* before the process exits; where the staging surface is created the release
\* comes after the copy into it was issued and before it is mapped, cropped or
\* encoded; and no call on the frame follows its release.
C11_FrameLifetime ==
  /\ C11_Releases <= 1
  /\ (pc = "exit" /\ frameOps # <<>>) => C11_Releases = 1
  /\ (frameState = "held") <=> (frameOps # <<>> /\ C11_Releases = 0)
  /\ \A i \in 1..Len(frameOps) : frameOps[i] = "ReleaseFrame" => i = Len(frameOps)
  /\ C11_StagingInUse =>
       frameOps = <<"AcquireNextFrame", "As", "GetDesc", "CopyResource", "ReleaseFrame">>

\* C11 witness: a capture that ended with exit code 0 had copied the frame and
\* then released it once.
C11_Witness ==
  /\ pc = "exit" /\ exitCode = 0
  /\ frameOps = <<"AcquireNextFrame", "As", "GetDesc", "CopyResource", "ReleaseFrame">>

\* the invocation is the monitor program's (its argv holds the program name)
C12_IsDxgi == argv # <<>>

\* the attempt was made and gave the main thread no frame
C12_AttemptFailed ==
  /\ captureTried > 0
  /\ IF C12_IsDxgi THEN frameOps = <<>> ELSE desc.w = 0

\* at most one attempt; a failed attempt ends the invocation with a non-zero
\* result and the output file as it was
C12_OneAttempt ==
  /\ captureTried <= 1
  /\ pc = "terminated" => (exitCode # 0 /\ DestinationUntouched)
  /\ (C12_AttemptFailed /\ pc \in {"exit", "terminated"}) =>
       (exitCode # 0 /\ DestinationUntouched /\ handle = NoPath)
  /\ C12_AttemptFailed => (DestinationUntouched /\ files[P_out \o S_tmp].kind \in {"absent", "old"})

\* an attempt is entered only when none was made, and the wait only from the
\* one StartCapture
C12_NoRetry ==
  (pc' # pc) =>
     /\ pc' \in {"AcquireNextFrame", "StartCapture"} => captureTried = 0
     /\ pc' = "WaitForSingleObject" => (pc = "StartCapture" /\ captureTried' = 1)

\* the invocation has ended
C12_Ended == pc \in {"exit", "terminated"}

\* C12: in both programs an invocation makes at most one attempt to get a
\* frame (one AcquireNextFrame; one StartCapture and one wait); when the
\* attempt times out or fails the invocation ends with a non-zero result,
\* without a second attempt and with the output file as it was; and every
\* invocation ends, whether or not a frame arrives.
C12_SingleAttempt == []C12_OneAttempt /\ [][C12_NoRetry]_vars /\ <>C12_Ended

\* C12 witness: the window program's wait timed out and the process ended
\* with the failure code and no file.
C12_Witness ==
  /\ ~C12_IsDxgi
  /\ pc = "exit" /\ hr = "WAIT_TIMEOUT" /\ exitCode = FailedExitCode
  /\ captureTried = 1 /\ cap.arrivals = 0
  /\ files[P_out] = Absent

\* the row-by-row copy is about to run with a crop rectangle: the monitor
\* program at its copy loop, the window program once the client area was found
C13_MonitorCopies == C12_IsDxgi /\ pc = "crop"

C13_WindowCopies == ~C12_IsDxgi /\ cropRect.has

\* the monitor program's rectangle lies in the surface that was captured
C13_MonitorCrop ==
  C13_MonitorCopies =>
    /\ cropRect.left >= 0
    /\ cropRect.top >= 0
    /\ cropRect.right - cropRect.left > 0
    /\ cropRect.bottom - cropRect.top > 0
    /\ cropRect.right <= desc.w
    /\ cropRect.bottom <= desc.h
    /\ ~ReadsPastMapping(cropRect, desc)

\* the window program's rectangle lies in the texture that was captured
C13_WindowCrop ==
  C13_WindowCopies =>
    /\ cropRect.x >= 0
    /\ cropRect.y >= 0
    /\ cropRect.width > 0
    /\ cropRect.height > 0
    /\ cropRect.x + cropRect.width <= desc.w
    /\ cropRect.y + cropRect.height <= desc.h

\* C13: whenever the row-by-row copy runs with a crop rectangle, its left and
\* top are not negative, its width and height are positive, and left + width
\* and top + height do not pass the width and height of the surface that was
\* captured, so that no row copy reads outside the mapped staging surface.
C13_CropWithinSurface == C13_MonitorCrop /\ C13_WindowCrop

=============================================================================
